---- MODULE Spec2Model ----
(***************************************************************************)
(* Model of tools/auth/nextcloud.go: the Nextcloud OAuth2 provider, its    *)
(* registration, its constructor, FetchRawUserInfo and FetchAuthUser.      *)
(*                                                                         *)
(* Provider objects live in a heap (a *Nextcloud is an address) and the    *)
(* scopes slice of a provider is a reference into a second heap, so that   *)
(* sharing between two instances is something the model can express.       *)
(* JSON bytes are modelled by their syntax tree (or the marker Malformed)  *)
(* and the two json.Unmarshal calls by what encoding/json does with it.    *)
(***************************************************************************)
EXTENDS Integers, Sequences, FiniteSets, TLC

VARIABLES Providers, heap, slices, inst, touched, muts, lookup,
          pc, att, log, data, rawUser, resp, user, err, trace

vars == <<Providers, heap, slices, inst, touched, muts, lookup,
          pc, att, log, data, rawUser, resp, user, err, trace>>

registryVars == <<Providers, heap, slices, inst, touched, muts, lookup>>
attemptVars == <<pc, att, log, data, rawUser, resp, user, err, trace>>

\* ------------------------------------------------------------------ bounds
\* number of provider handles the host holds at once
NumSlots == 2
\* number of provider objects that can be allocated
MaxObjs == 2
\* number of configuration mutations the host performs
MaxMutations == 2

Slots == 1..NumSlots

Nil == <<"nil">>

\* --------------------------------------------------------------- JSON text
\* A payload is Malformed or a JSON value; an object keeps its members in
\* document order, so duplicate and differently-cased keys are expressible.
Malformed == <<"bad">>
JNull == <<"null">>
JArr == <<"arr">>
JStr(s) == <<"str", s>>
JNum(n) == <<"num", n>>
JObj(members) == <<"obj", members>>
Absent == <<"absent">>

Kind(v) == v[1]

\* the members of an object for the fields that are present, in order
Member(k, v) == IF v = Absent THEN <<>> ELSE << <<k, v>> >>

\* {"ocs":{"data":{"id":i,"displayname":d,"email":e}}}
DataObj(i, d, e) == JObj(Member("id", i) \o Member("displayname", d) \o Member("email", e))
OcsPayload(i, d, e) == JObj(<< <<"ocs", JObj(<< <<"data", DataObj(i, d, e)>> >>)>> >>)

IdVals == {Absent, JNull, JStr(""), JStr("u1"), JNum("7")}
NameVals == {Absent, JStr("Jane Doe")}
EmailVals == {Absent, JNull, JStr("jane@example.test")}

ShapedPayloads == {OcsPayload(i, d, e) : i \in IdVals, d \in NameVals, e \in EmailVals}

OddPayloads ==
  { Malformed, JNull, JArr, JStr("u1"), JObj(<<>>),
    JObj(<< <<"ocs", JNull>> >>),
    JObj(<< <<"ocs", JStr("x")>> >>),
    JObj(<< <<"ocs", JObj(<<>>)>> >>),
    JObj(<< <<"ocs", JObj(<< <<"data", JNull>> >>)>> >>),
    JObj(<< <<"ocs", JObj(<< <<"data", JArr>> >>)>> >>),
    \* wrapper with the meta object Nextcloud sends next to data
    JObj(<< <<"ocs", JObj(<< <<"meta", JObj(<< <<"status", JStr("ok")>> >>)>>,
                             <<"data", DataObj(JStr("u1"), JStr("Jane Doe"), Absent)>> >>)>> >>),
    \* differently-cased and duplicate keys
    JObj(<< <<"OCS", JObj(<< <<"data", JObj(<< <<"ID", JStr("u1")>> >>)>> >>)>> >>),
    JObj(<< <<"ocs", JObj(<< <<"data", JObj(<< <<"id", JStr("u1")>>, <<"id", JStr("u2")>> >>)>> >>)>> >>),
    \* a type error followed by a well-typed identifier
    JObj(<< <<"ocs", JObj(<< <<"data", JObj(<< <<"email", JNum("7")>>, <<"id", JStr("u1")>> >>)>> >>)>> >>) }

Payloads == ShapedPayloads \cup OddPayloads

\* ------------------------------------------------- encoding/json, generic
\* Go values of type any produced by json.Unmarshal into map[string]any
GoString(s) == <<"string", s>>
GoFloat(n) == <<"float64", n>>
GoSlice == <<"[]any">>
GoMap(f) == <<"map", f>>
GoNilMap == <<"nilmap">>
EmptyMap == GoMap(<<>>)

SyntaxError == <<"SyntaxError", "invalid character">>
UnmarshalTypeError(kind, into) == <<"UnmarshalTypeError", kind, into>>

Put(m, k, x) == [j \in (DOMAIN m) \cup {k} |-> IF j = k THEN x ELSE m[j]]

RECURSIVE ToAny(_), MembersToMap(_, _)
ToAny(v) ==
  CASE Kind(v) = "null" -> Nil
    [] Kind(v) = "str" -> GoString(v[2])
    [] Kind(v) = "num" -> GoFloat(v[2])
    [] Kind(v) = "arr" -> GoSlice
    [] Kind(v) = "obj" -> GoMap(MembersToMap(v[2], <<>>))

\* members are stored in document order under their exact key; a later
\* duplicate replaces an earlier one
MembersToMap(ms, m) ==
  IF ms = <<>> THEN m
  ELSE MembersToMap(Tail(ms), Put(m, Head(ms)[1], ToAny(Head(ms)[2])))

\* json.Unmarshal(data, &rawUser) with rawUser a non-nil map[string]any
UnmarshalMap(bytes, m0) ==
  CASE bytes \in {Malformed, Nil} -> [v |-> m0, err |-> SyntaxError]
    [] Kind(bytes) = "obj" -> [v |-> GoMap(MembersToMap(bytes[2], m0[2])), err |-> Nil]
    [] Kind(bytes) = "null" -> [v |-> GoNilMap, err |-> Nil]
    [] OTHER -> [v |-> m0, err |-> UnmarshalTypeError(Kind(bytes), "map[string]interface {}")]

\* ---------------------------------------------- encoding/json, structural
\* the anonymous struct FetchAuthUser decodes into, zero-valued
ZeroResp == [OCS |-> [Data |-> [ID |-> "", DisplayName |-> "", Email |-> ""]]]

\* struct fields are matched against keys ignoring case
Fold(k) == IF k = "OCS" THEN "ocs" ELSE IF k = "ID" THEN "id" ELSE k

\* the first error is kept and decoding goes on
SaveErr(e, new) == IF e = Nil THEN new ELSE e

\* a string field: a JSON string is stored, null leaves the field alone,
\* anything else is a type error that leaves the field alone
DecodeString(cur, v, e) ==
  CASE Kind(v) = "str" -> [v |-> v[2], err |-> e]
    [] Kind(v) = "null" -> [v |-> cur, err |-> e]
    [] OTHER -> [v |-> cur, err |-> SaveErr(e, UnmarshalTypeError(Kind(v), "string"))]

DataField(k) ==
  CASE Fold(k) = "id" -> "ID"
    [] Fold(k) = "displayname" -> "DisplayName"
    [] Fold(k) = "email" -> "Email"
    [] OTHER -> ""

RECURSIVE DataMembers(_, _, _)
DataMembers(ms, cur, e) ==
  IF ms = <<>> THEN [v |-> cur, err |-> e]
  ELSE LET f == DataField(Head(ms)[1]) IN
       IF f = "" THEN DataMembers(Tail(ms), cur, e)
       ELSE LET r == DecodeString(cur[f], Head(ms)[2], e) IN
            DataMembers(Tail(ms), [cur EXCEPT ![f] = r.v], r.err)

DecodeData(cur, v, e) ==
  CASE Kind(v) = "obj" -> DataMembers(v[2], cur, e)
    [] Kind(v) = "null" -> [v |-> cur, err |-> e]
    [] OTHER -> [v |-> cur, err |-> SaveErr(e, UnmarshalTypeError(Kind(v), "struct"))]

RECURSIVE OcsMembers(_, _, _)
OcsMembers(ms, cur, e) ==
  IF ms = <<>> THEN [v |-> cur, err |-> e]
  ELSE IF Fold(Head(ms)[1]) = "data"
       THEN LET r == DecodeData(cur.Data, Head(ms)[2], e) IN
            OcsMembers(Tail(ms), [cur EXCEPT !.Data = r.v], r.err)
       ELSE OcsMembers(Tail(ms), cur, e)

DecodeOCS(cur, v, e) ==
  CASE Kind(v) = "obj" -> OcsMembers(v[2], cur, e)
    [] Kind(v) = "null" -> [v |-> cur, err |-> e]
    [] OTHER -> [v |-> cur, err |-> SaveErr(e, UnmarshalTypeError(Kind(v), "struct"))]

RECURSIVE RespMembers(_, _, _)
RespMembers(ms, cur, e) ==
  IF ms = <<>> THEN [v |-> cur, err |-> e]
  ELSE IF Fold(Head(ms)[1]) = "ocs"
       THEN LET r == DecodeOCS(cur.OCS, Head(ms)[2], e) IN
            RespMembers(Tail(ms), [cur EXCEPT !.OCS = r.v], r.err)
       ELSE RespMembers(Tail(ms), cur, e)

\* json.Unmarshal(data, &resp)
UnmarshalResp(bytes, r0) ==
  CASE bytes \in {Malformed, Nil} -> [v |-> r0, err |-> SyntaxError]
    [] Kind(bytes) = "obj" -> RespMembers(bytes[2], r0, Nil)
    [] Kind(bytes) = "null" -> [v |-> r0, err |-> Nil]
    [] OTHER -> [v |-> r0, err |-> UnmarshalTypeError(Kind(bytes), "struct")]

\* ------------------------------------------------------ provider objects
NameNextcloud == "nextcloud"

DefaultScopes == <<"read:user", "user:email">>
DefaultAuthURL == "https://nextcloud.your.domain/apps/oauth2/authorize"
DefaultTokenURL == "https://nextcloud.your.domain/apps/oauth2/api/v1/token"
DefaultUserInfoURL == "https://nextcloud.your.domain/ocs/v2.php/cloud/user?format=json"

\* The BaseProvider fields; scopes holds the address of the slice.
BaseProvider(scopesAt) ==
  [ ctx |-> "Background",
    displayName |-> "Nextcloud",
    pkce |-> TRUE,
    scopes |-> scopesAt,
    authURL |-> DefaultAuthURL,
    tokenURL |-> DefaultTokenURL,
    userInfoURL |-> DefaultUserInfoURL,
    clientId |-> "",
    clientSecret |-> "",
    redirectURL |-> "" ]

\* the scopes of every instance taken from one package-level slice
NewNextcloudProviderSharedScopes(h, sl) ==
  [ addr |-> Len(h) + 1,
    heap |-> Append(h, BaseProvider(1)),
    slices |-> IF sl = <<>> THEN <<DefaultScopes>> ELSE sl ]

\* NewNextcloudProvider allocates a provider and the slice literal of its
\* scopes; h and sl are the heaps, the result names the new address.
NewNextcloudProvider(h, sl) ==
  [ addr |-> Len(h) + 1,
    heap |-> Append(h, BaseProvider(Len(sl) + 1)),
    slices |-> Append(sl, DefaultScopes) ]

\* ------------------------------------------------------------- registry
wrapFactory(f) == <<"ProviderFactoryFunc", f>>

\* the package's init(): registration under the provider's name
init(P) == Put(P, NameNextcloud, wrapFactory("NewNextcloudProvider"))

CallFactory(f, h, sl) ==
  CASE f[2] = "NewNextcloudProvider" -> NewNextcloudProvider(h, sl)

NotFoundError(name) == <<"NotFoundError", name>>

\* NewProviderByName: the registry's lookup by name
NewProviderByName(P, name, h, sl) ==
  IF name \in DOMAIN P
  THEN [err |-> Nil] @@ CallFactory(P[name], h, sl)
  ELSE [err |-> NotFoundError(name), addr |-> 0, heap |-> h, slices |-> sl]

LookupNames == {NameNextcloud, "unknown-provider"}

\* ------------------------------------------------------------ transport
Token(a, f, e) ==
  [AccessToken |-> a, RefreshToken |-> f, Expiry |-> e, Claims |-> JObj(<< <<"sub", JStr("u1")>> >>)]

\* a token without refresh token and expiry, one with both, one with a refresh
\* token only
Tokens == {Token("tok123", "", 0), Token("tokB", "ref1", 1767225600), Token("tokC", "ref2", 0)}

NoToken == [AccessToken |-> "", RefreshToken |-> "", Expiry |-> 0, Claims |-> JNull]

\* what the HTTP client capability answers to one request
Responses ==
  {[kind |-> "neterr", status |-> 0, body |-> Nil]}
    \cup {[kind |-> "http", status |-> 401, body |-> OcsPayload(JStr("u1"), Absent, Absent)]}
    \cup {[kind |-> "http", status |-> 200, body |-> p] : p \in Payloads}

NoResponse == [kind |-> "", status |-> 0, body |-> Nil]

UserInfoFetchError(cause) == <<"UserInfoFetchError", cause>>

Bearer(accessToken) == <<"Bearer", accessToken>>

\* http.NewRequestWithContext(ctx, method, url, nil)
NewRequestWithContext(ctx, method, url) ==
  IF ctx = "nil"
  THEN [req |-> Nil, err |-> <<"net/http", "nil Context">>]
  ELSE [req |-> [method |-> method, url |-> url, header |-> <<>>], err |-> Nil]

\* sendRawUserInfoRequest: one authenticated round trip through the
\* transport; reqs is what the transport records.
sendRawUserInfoRequest(req, token, r) ==
  LET sent == [req EXCEPT !.header = Put(@, "Authorization", Bearer(token.AccessToken))] IN
  CASE r.kind = "neterr" ->
         [data |-> Nil, err |-> UserInfoFetchError("transport"), reqs |-> <<sent>>]
    [] r.status \notin 200..299 ->
         [data |-> Nil, err |-> UserInfoFetchError("status"), reqs |-> <<sent>>]
    [] OTHER -> [data |-> r.body, err |-> Nil, reqs |-> <<sent>>]

\* BaseProvider.FetchRawUserInfo: the endpoint when one is configured,
\* the token's claims otherwise
BaseFetchRawUserInfo(p, token, r) ==
  IF p.userInfoURL # ""
  THEN LET n == NewRequestWithContext(p.ctx, "GET", p.userInfoURL) IN
       IF n.err # Nil THEN [data |-> Nil, err |-> n.err, reqs |-> <<>>]
       ELSE sendRawUserInfoRequest(n.req, token, r)
  ELSE [data |-> token.Claims, err |-> Nil, reqs |-> <<>>]

\* Nextcloud.FetchRawUserInfo
FetchRawUserInfo(p, token, r) ==
  IF p.userInfoURL # ""
  THEN BaseFetchRawUserInfo(p, token, r)
  ELSE LET n == NewRequestWithContext(p.ctx, "GET", p.userInfoURL) IN
       IF n.err # Nil THEN [data |-> Nil, err |-> n.err, reqs |-> <<>>]
       ELSE LET h1 == Put(n.req.header, "Authorization", Bearer(token.AccessToken))
                h2 == Put(h1, "OCS-APIRequest", "true")
            IN sendRawUserInfoRequest([n.req EXCEPT !.header = h2], token, r)

\* ---------------------------------------------------------- FetchAuthUser
\* types.ParseDateTime of a time.Time: the canonical timestamp wrapping it
DateTime(t) == <<"DateTime", t>>
ParseDateTime(t) == [v |-> DateTime(t), err |-> Nil]

\* DateTime.Time(): the instant a DateTime holds
Time(d) == d[2]

Ptr(x) == <<"ptr", x>>
Deref(ptr) == ptr[2]

\* the refresh token taken from the wrong field of the token
NewAuthUserWrongRefresh(rsp, raw, token) ==
  [ Id |-> rsp.OCS.Data.ID,
    Name |-> rsp.OCS.Data.DisplayName,
    Username |-> rsp.OCS.Data.ID,
    Email |-> rsp.OCS.Data.Email,
    AvatarURL |-> "",
    RawUser |-> raw,
    AccessToken |-> token.AccessToken,
    RefreshToken |-> token.AccessToken,
    Expiry |-> ParseDateTime(token.Expiry).v ]

\* the username taken from the display name
NewAuthUserWrongUsername(rsp, raw, token) ==
  [ Id |-> rsp.OCS.Data.ID,
    Name |-> rsp.OCS.Data.DisplayName,
    Username |-> rsp.OCS.Data.DisplayName,
    Email |-> rsp.OCS.Data.Email,
    AvatarURL |-> "",
    RawUser |-> raw,
    AccessToken |-> token.AccessToken,
    RefreshToken |-> token.RefreshToken,
    Expiry |-> ParseDateTime(token.Expiry).v ]

\* a missing display name filled in from the identifier
NewAuthUserNameFallback(rsp, raw, token) ==
  [ Id |-> rsp.OCS.Data.ID,
    Name |-> IF rsp.OCS.Data.DisplayName = "" THEN rsp.OCS.Data.ID ELSE rsp.OCS.Data.DisplayName,
    Username |-> rsp.OCS.Data.ID,
    Email |-> rsp.OCS.Data.Email,
    AvatarURL |-> "",
    RawUser |-> raw,
    AccessToken |-> token.AccessToken,
    RefreshToken |-> token.RefreshToken,
    Expiry |-> ParseDateTime(token.Expiry).v ]

\* the AuthUser literal and the Expiry assignment after it
NewAuthUser(rsp, raw, token) ==
  [ Id |-> rsp.OCS.Data.ID,
    Name |-> rsp.OCS.Data.DisplayName,
    Username |-> rsp.OCS.Data.ID,
    Email |-> rsp.OCS.Data.Email,
    AvatarURL |-> "",
    RawUser |-> raw,
    AccessToken |-> token.AccessToken,
    RefreshToken |-> token.RefreshToken,
    Expiry |-> ParseDateTime(token.Expiry).v ]

\* if err != nil { return nil, err } after each of the three calls
AfterFetchIgnoringErr(e) == "RawProfileFetched"
AfterFetch(e) == IF e # Nil THEN "Failed" ELSE "RawProfileFetched"

AfterUnmarshalRawIgnoringErr(e) == "GenericDecoded"
AfterUnmarshalRaw(e) == IF e # Nil THEN "Failed" ELSE "GenericDecoded"

AfterUnmarshalRespIgnoringErr(e) == "StructDecoded"
AfterUnmarshalResp(e) == IF e # Nil THEN "Failed" ELSE "StructDecoded"

\* ------------------------------------------------------------ the state
NoAttempt == [slot |-> 0, token |-> NoToken, url |-> "", r |-> NoResponse]
NoLookup == [name |-> "", err |-> Nil, addr |-> 0]

Init ==
  /\ Providers = init(<<>>)
  /\ heap = <<>>
  /\ slices = <<>>
  /\ inst = [s \in Slots |-> 0]
  /\ touched = [s \in Slots |-> FALSE]
  /\ muts = 0
  /\ lookup = NoLookup
  /\ pc = "Idle"
  /\ att = NoAttempt
  /\ log = <<>>
  /\ data = Nil
  /\ rawUser = Nil
  /\ resp = ZeroResp
  /\ user = Nil
  /\ err = Nil
  /\ trace = <<>>

\* ---------------------------------------------- the host and the registry
\* the host asks the registry for a provider and keeps it in a slot
Get(s, name) ==
  /\ pc = "Idle"
  /\ name \in DOMAIN Providers => Len(heap) < MaxObjs
  /\ LET g == NewProviderByName(Providers, name, heap, slices) IN
       /\ heap' = g.heap
       /\ slices' = g.slices
       /\ lookup' = [name |-> name, err |-> g.err, addr |-> g.addr]
       /\ IF g.err = Nil
          THEN /\ inst' = [inst EXCEPT ![s] = g.addr]
               /\ touched' = [touched EXCEPT ![s] = FALSE]
          ELSE UNCHANGED <<inst, touched>>
  /\ UNCHANGED <<Providers, muts>>
  /\ UNCHANGED attemptVars

\* a BaseProvider setter: one field of the provider behind the handle
SetField(s, f, v) ==
  /\ pc = "Idle"
  /\ inst[s] # 0
  /\ muts < MaxMutations
  /\ heap[inst[s]][f] # v
  /\ heap' = [heap EXCEPT ![inst[s]][f] = v]
  /\ touched' = [touched EXCEPT ![s] = TRUE]
  /\ muts' = muts + 1
  /\ UNCHANGED <<Providers, slices, inst, lookup>>
  /\ UNCHANGED attemptVars

UserInfoURLs == {"", DefaultUserInfoURL, "https://example.test/profile"}

SetUserInfoURL(s, v) == SetField(s, "userInfoURL", v)
SetAuthURL(s, v) == SetField(s, "authURL", v)
SetTokenURL(s, v) == SetField(s, "tokenURL", v)
SetPKCE(s, v) == SetField(s, "pkce", v)
SetClientId(s, v) == SetField(s, "clientId", v)
SetClientSecret(s, v) == SetField(s, "clientSecret", v)
SetRedirectURL(s, v) == SetField(s, "redirectURL", v)

\* SetScopes stores the caller's slice
SetScopes(s, sc) ==
  /\ pc = "Idle"
  /\ inst[s] # 0
  /\ muts < MaxMutations
  /\ slices' = Append(slices, sc)
  /\ heap' = [heap EXCEPT ![inst[s]].scopes = Len(slices) + 1]
  /\ touched' = [touched EXCEPT ![s] = TRUE]
  /\ muts' = muts + 1
  /\ UNCHANGED <<Providers, inst, lookup>>
  /\ UNCHANGED attemptVars

\* an element written through the slice Scopes() returns
WriteScope(s, i, v) ==
  /\ pc = "Idle"
  /\ inst[s] # 0
  /\ muts < MaxMutations
  /\ LET at == heap[inst[s]].scopes IN
       /\ i \in 1..Len(slices[at])
       /\ slices[at][i] # v
       /\ slices' = [slices EXCEPT ![at][i] = v]
  /\ touched' = [touched EXCEPT ![s] = TRUE]
  /\ muts' = muts + 1
  /\ UNCHANGED <<Providers, heap, inst, lookup>>
  /\ UNCHANGED attemptVars

\* ------------------------------------------------ one FetchAuthUser call
\* data, err := p.FetchRawUserInfo(token); if err != nil { return nil, err }
FetchAuthUserFetch(s, token, r) ==
  /\ pc = "Idle"
  /\ inst[s] # 0
  /\ LET p == heap[inst[s]]
         f == FetchRawUserInfo(p, token, r)
     IN /\ att' = [slot |-> s, token |-> token, url |-> p.userInfoURL, r |-> r]
        /\ log' = f.reqs
        /\ data' = f.data
        /\ err' = f.err
        /\ pc' = AfterFetch(f.err)
  /\ trace' = <<"FetchRawUserInfo">>
  /\ UNCHANGED <<rawUser, resp, user>>
  /\ UNCHANGED registryVars

\* rawUser := map[string]any{}; json.Unmarshal(data, &rawUser)
FetchAuthUserDecodeRaw ==
  /\ pc = "RawProfileFetched"
  /\ LET u == UnmarshalMap(data, EmptyMap) IN
       /\ rawUser' = u.v
       /\ err' = u.err
       /\ pc' = AfterUnmarshalRaw(u.err)
  /\ trace' = Append(trace, "UnmarshalRawUser")
  /\ UNCHANGED <<att, log, data, resp, user>>
  /\ UNCHANGED registryVars

\* var resp struct{...}; json.Unmarshal(data, &resp)
FetchAuthUserDecodeResp ==
  /\ pc = "GenericDecoded"
  /\ LET u == UnmarshalResp(data, ZeroResp) IN
       /\ resp' = u.v
       /\ err' = u.err
       /\ pc' = AfterUnmarshalResp(u.err)
  /\ trace' = Append(trace, "UnmarshalResp")
  /\ UNCHANGED <<att, log, data, rawUser, user>>
  /\ UNCHANGED registryVars

\* user := &AuthUser{...}; user.Expiry, _ = ...; return user, nil
FetchAuthUserReturn ==
  /\ pc = "StructDecoded"
  /\ user' = Ptr(NewAuthUser(resp, rawUser, att.token))
  /\ pc' = "Normalized"
  /\ trace' = Append(trace, "AuthUser")
  /\ UNCHANGED <<att, log, data, rawUser, resp, err>>
  /\ UNCHANGED registryVars

\* the caller has taken the result; the call's locals are gone
Done ==
  /\ pc \in {"Normalized", "Failed"}
  /\ pc' = "Idle"
  /\ att' = NoAttempt
  /\ log' = <<>>
  /\ data' = Nil
  /\ rawUser' = Nil
  /\ resp' = ZeroResp
  /\ user' = Nil
  /\ err' = Nil
  /\ trace' = <<>>
  /\ UNCHANGED registryVars

\* ------------------------------------------------------- specifications
\* authentication attempts against a provider taken from the registry; the
\* host drives them through its first handle
AttemptSlots == {s \in Slots : \A t \in Slots : s <= t}

Next ==
  \/ \E s \in AttemptSlots : Get(s, NameNextcloud)
  \/ \E s \in AttemptSlots, v \in UserInfoURLs : SetUserInfoURL(s, v)
  \/ \E s \in AttemptSlots, token \in Tokens, r \in Responses : FetchAuthUserFetch(s, token, r)
  \/ FetchAuthUserDecodeRaw
  \/ FetchAuthUserDecodeResp
  \/ FetchAuthUserReturn
  \/ Done

Spec == Init /\ [][Next]_vars

\* the registry and the configuration of the instances it hands out
NextRegistry ==
  \/ \E s \in Slots, name \in LookupNames : Get(s, name)
  \/ \E s \in Slots, v \in UserInfoURLs : SetUserInfoURL(s, v)
  \/ \E s \in Slots : SetAuthURL(s, "https://example.test/authorize")
  \/ \E s \in Slots : SetTokenURL(s, "https://example.test/token")
  \/ \E s \in Slots, v \in BOOLEAN : SetPKCE(s, v)
  \/ \E s \in Slots : SetClientId(s, "client-1")
  \/ \E s \in Slots : SetClientSecret(s, "secret-1")
  \/ \E s \in Slots : SetRedirectURL(s, "https://example.test/redirect")
  \/ \E s \in Slots : SetScopes(s, <<"profile">>)
  \/ \E s \in Slots, i \in 1..Len(DefaultScopes) : WriteScope(s, i, "admin")

SpecRegistry == Init /\ [][NextRegistry]_vars

\* ------------------------------------------------------------ properties
Terminal == {"Normalized", "Failed"}
StepOrder == <<"FetchRawUserInfo", "UnmarshalRawUser", "UnmarshalResp", "AuthUser">>

\* the transport fails or the endpoint answers outside 2xx
FetchFails(a) == a.r.kind = "neterr" \/ a.r.status \notin 200..299

\* the strings a field of a shaped payload can hold
StrOf(v) == v[2]
IdStrings == {StrOf(v) : v \in {x \in IdVals : Kind(x) = "str"}}
NameStrings == {StrOf(v) : v \in {x \in NameVals : Kind(x) = "str"}}
EmailStrings == {StrOf(v) : v \in {x \in EmailVals : Kind(x) = "str"}}

\* payloads that are well-formed JSON of the provider's shape whose
\* identifier is absent or empty
MissingIdPayloads ==
  {OcsPayload(i, d, e) : i \in {Absent, JStr("")},
                         d \in {x \in NameVals : Kind(x) \in {"absent", "str"}},
                         e \in {x \in EmailVals : Kind(x) \in {"absent", "str"}}}

\* C1: a well-formed payload whose identifier (ocs.data.id) is absent or
\* empty makes FetchAuthUser fail with no identity; every identity
\* returned on success has a non-empty id.
C1_MissingIdFails ==
  (pc \in Terminal /\ ~FetchFails(att) /\ data \in MissingIdPayloads) =>
    (pc = "Failed" /\ user = Nil /\ err # Nil)

\* C2: with an empty userInfoURL, FetchRawUserInfo records no request in
\* the transport and returns the claims derived from the token.
C2_NoRequestWithoutURL ==
  (pc # "Idle" /\ att.url = "") => (log = <<>> /\ data = att.token.Claims)

\* C3: on success the identity's accessToken, refreshToken and expiry
\* equal the token's fields, whatever the profile payload holds.
C3_TokenFieldsPreserved ==
  pc = "Normalized" =>
    /\ Deref(user).AccessToken = att.token.AccessToken
    /\ Deref(user).RefreshToken = att.token.RefreshToken
    /\ Time(Deref(user).Expiry) = att.token.Expiry

C3_Witness ==
  /\ pc = "Normalized"
  /\ att.token.RefreshToken # ""
  /\ att.token.RefreshToken # att.token.AccessToken
  /\ att.token.Expiry # 0
  /\ data = JNull

\* C4: when the raw user-info fetch fails (HTTP 401, transport error),
\* FetchAuthUser returns that UserInfoFetchError and no identity, and
\* rawUser is never decoded or populated.
C4_FetchErrorReturned ==
  (pc # "Idle" /\ FetchFails(att)) =>
    /\ pc = "Failed"
    /\ err = UserInfoFetchError(IF att.r.kind = "neterr" THEN "transport" ELSE "status")
    /\ user = Nil
    /\ rawUser = Nil
    /\ trace = <<"FetchRawUserInfo">>

C4_Witness ==
  /\ pc = "Failed"
  /\ att.r.kind = "http"
  /\ att.r.status = 401
  /\ att.r.body \in ShapedPayloads
  /\ Len(log) = 1

\* the generic decode of {"ocs":{"data":{"id":i,"displayname":d,"email":e}}}
ExpectedRawUser(i, d, e) ==
  GoMap([ocs |-> GoMap([data |->
    GoMap([id |-> GoString(i), displayname |-> GoString(d), email |-> GoString(e)])])])

\* C5: for a payload {ocs:{data:{id, displayname, email}}} a successful
\* FetchAuthUser returns id = ocs.data.id, name = ocs.data.displayname,
\* username = ocs.data.id, email = ocs.data.email, an empty avatarURL and
\* rawUser equal to the generic decode of the same bytes.
C5_ShapedPayloadMapping ==
  \A i \in IdStrings, d \in NameStrings, e \in EmailStrings :
    (pc = "Normalized" /\ data = OcsPayload(JStr(i), JStr(d), JStr(e))) =>
      /\ Deref(user).Id = i
      /\ Deref(user).Name = d
      /\ Deref(user).Username = i
      /\ Deref(user).Email = e
      /\ Deref(user).AvatarURL = ""
      /\ Deref(user).RawUser = ExpectedRawUser(i, d, e)

C5_Witness ==
  /\ pc = "Normalized"
  /\ att.token.AccessToken = "tok123"
  /\ att.url = "https://example.test/profile"
  /\ data = OcsPayload(JStr("u1"), JStr("Jane Doe"), JStr("jane@example.test"))

\* payloads with a non-empty identifier that omit displayname, email or both
OptionalOmittedPayloads ==
  {OcsPayload(JStr(i), d, e) : i \in IdStrings \ {""},
                               d \in {x \in NameVals : Kind(x) \in {"absent", "str"}},
                               e \in {x \in EmailVals : Kind(x) \in {"absent", "str"}}}
    \ {OcsPayload(JStr(i), JStr(d), JStr(e)) : i \in IdStrings, d \in NameStrings, e \in EmailStrings}

HasKey(obj, k) == \E n \in 1..Len(obj[2]) : obj[2][n][1] = k
OcsData(payload) == payload[2][1][2][2][1][2]

\* C6: a payload with a non-empty identifier that omits displayname
\* and/or email never makes FetchAuthUser fail; it succeeds and each
\* omitted field is the empty string in the identity.
C6_OptionalFieldsTolerated ==
  (pc # "Idle" /\ ~FetchFails(att) /\ data \in OptionalOmittedPayloads) =>
    /\ pc # "Failed"
    /\ err = Nil
    /\ pc = "Normalized" =>
         /\ Deref(user).Id # ""
         /\ ~HasKey(OcsData(data), "displayname") => Deref(user).Name = ""
         /\ ~HasKey(OcsData(data), "email") => Deref(user).Email = ""

C6_Witness ==
  /\ pc = "Normalized"
  /\ data = OcsPayload(JStr("u1"), Absent, Absent)
  /\ Deref(user).Name = ""
  /\ Deref(user).Email = ""

\* JSON kinds that decode into neither a struct nor a string field
NotObject == {"str", "num", "arr"}

MemberOfKind(obj, k, kinds) ==
  \E n \in 1..Len(obj[2]) : Fold(obj[2][n][1]) = k /\ Kind(obj[2][n][2]) \in kinds

\* the bytes are not JSON, or the top level or the ocs member is not an
\* object
NotEnvelope(d) ==
  \/ d \in {Malformed, Nil}
  \/ Kind(d) \in NotObject
  \/ Kind(d) = "obj" /\ MemberOfKind(d, "ocs", NotObject)

\* C7: bytes that are not well-formed JSON, or whose top-level shape does
\* not decode into the provider's envelope, make FetchAuthUser fail with an
\* error and no identity.
C7_BadPayloadFails ==
  (pc # "Idle" /\ ~FetchFails(att) /\ NotEnvelope(data)) =>
    /\ pc # "Normalized"
    /\ user = Nil
    /\ pc \in Terminal => (pc = "Failed" /\ err # Nil)
    /\ Len(trace) <= 3

C7_Witness ==
  /\ pc = "Failed"
  /\ data = JObj(<< <<"ocs", JStr("x")>> >>)
  /\ trace = SubSeq(StepOrder, 1, 3)
  /\ err # Nil

\* the value of a provider's configuration, its scopes by value
ConfigOf(a) == [heap[a] EXCEPT !.scopes = slices[heap[a].scopes]]
DefaultConfig == [BaseProvider(0) EXCEPT !.scopes = DefaultScopes]

\* C8: every lookup of "nextcloud" constructs a fresh provider: two
\* instances share no mutable configuration, so whatever is changed through
\* one handle, an instance not changed through its own handle still holds
\* the constructor defaults; a lookup of an unregistered name fails with
\* NotFoundError.
C8_FreshIndependentInstances ==
  /\ \A s, t \in Slots :
       (s # t /\ inst[s] # 0 /\ inst[t] # 0) =>
          /\ inst[s] # inst[t]
          /\ heap[inst[s]].scopes # heap[inst[t]].scopes
  /\ \A s \in Slots :
       (inst[s] # 0 /\ ~touched[s]) => ConfigOf(inst[s]) = DefaultConfig
  /\ lookup.name = NameNextcloud => (lookup.err = Nil /\ lookup.addr = Len(heap))
  /\ lookup.name \notin {"", NameNextcloud} =>
       (lookup.err = NotFoundError(lookup.name) /\ lookup.addr = 0)

C8_Witness ==
  /\ \E s, t \in Slots :
       /\ inst[s] # 0 /\ inst[t] # 0 /\ s # t
       /\ touched[s] /\ ~touched[t]
       /\ slices[heap[inst[s]].scopes] # DefaultScopes
       /\ heap[inst[s]].userInfoURL # DefaultUserInfoURL
  /\ lookup.name = "unknown-provider"
  /\ lookup.err # Nil

\* C9: an attempt runs raw-profile fetch, generic decode, structural
\* decode, identity construction in this order, fetches at most once, and
\* ends either Normalized with an identity or Failed with an error; the
\* first failing step ends it, with no later step and no retry.
C9_StepsInOrderOneOutcome ==
  /\ Len(log) <= 1
  /\ Len(trace) <= Len(StepOrder)
  /\ trace = SubSeq(StepOrder, 1, Len(trace))
  /\ pc = "Idle" <=> trace = <<>>
  /\ pc = "RawProfileFetched" => Len(trace) = 1
  /\ pc = "GenericDecoded" => Len(trace) = 2
  /\ pc = "StructDecoded" => Len(trace) = 3
  /\ pc = "Normalized" => (trace = StepOrder /\ user # Nil /\ err = Nil)
  /\ pc = "Failed" => (Len(trace) \in 1..3 /\ user = Nil /\ err # Nil)
  /\ pc \notin Terminal => (user = Nil /\ err = Nil)
  /\ Len(trace) < 2 => rawUser = Nil
  /\ Len(trace) < 3 => resp = ZeroResp
  /\ (pc = "Failed" /\ Len(trace) = 1) <=> (pc # "Idle" /\ FetchFails(att))

C9_Witness ==
  /\ pc = "Failed"
  /\ Len(trace) = 2
  /\ Len(log) = 1
  /\ data = JArr

\* C10: with a non-empty userInfoURL, the GET issued to the user-info
\* endpoint carries the Bearer Authorization header of the token's access
\* token and the OCS-APIRequest header.
C10_RequestCarriesHeaders ==
  (pc # "Idle" /\ att.url # "") =>
    /\ Len(log) = 1
    /\ \A n \in 1..Len(log) :
         /\ log[n].method = "GET"
         /\ log[n].url = att.url
         /\ "Authorization" \in DOMAIN log[n].header
         /\ log[n].header["Authorization"] = Bearer(att.token.AccessToken)
         /\ "OCS-APIRequest" \in DOMAIN log[n].header

====
